---- MODULE Spec2Model ----
(***************************************************************************)
(* Shortest-job-first scheduling of a fixed task set on one server:        *)
(* NaiveScheduler (Vec + linear scan) and CleverScheduler (Vec +           *)
(* BinaryHeap), both from src/src/lib.rs.  The harness is the one of the   *)
(* tests: both schedulers are built from the same slice, then              *)
(* execution_order runs on the naive one and, once it has returned, on the *)
(* clever one.                                                             *)
(***************************************************************************)
EXTENDS Integers, Sequences, FiniteSets, TLC

VARIABLES
    tasks,            \* the input slice &[Task]
    naive,            \* NaiveScheduler: current_time, current_queue, unqueued_tasks
    clever,           \* CleverScheduler: current_time, unqueued_tasks, current_queue
    n_pc,             \* position of NaiveScheduler::execution_order
    c_pc,             \* position of CleverScheduler::execution_order
    n_executed_ids,   \* local executed_ids of NaiveScheduler::execution_order
    c_executed_ids,   \* local executed_ids of CleverScheduler::execution_order
    n_next_task,      \* local next_task of the naive loop (last get_next_task result)
    c_next_task,      \* local next_task of the clever loop
    n_before,         \* current_time as it stood before the last naive get_next_task
    c_before,         \* current_time as it stood before the last clever get_next_task
    n_iters,          \* loop iterations entered by NaiveScheduler::execution_order
    c_iters,          \* loop iterations entered by CleverScheduler::execution_order
    n_result,         \* value returned by NaiveScheduler::execution_order
    c_result,         \* value returned by CleverScheduler::execution_order
    n_path,           \* branch the last naive get_next_task took: "queue", "idle", "none"
    c_path,           \* branch the last clever get_next_task took
    n_calls,          \* calls of NaiveScheduler::execution_order started so far
    c_calls           \* calls of CleverScheduler::execution_order started so far

vars == <<tasks, naive, clever, n_pc, c_pc, n_executed_ids, c_executed_ids,
          n_next_task, c_next_task, n_before, c_before, n_iters, c_iters,
          n_result, c_result, n_path, c_path, n_calls, c_calls>>

n_vars == <<naive, n_pc, n_executed_ids, n_next_task, n_before, n_iters, n_result,
            n_path, n_calls>>
c_vars == <<clever, c_pc, c_executed_ids, c_next_task, c_before, c_iters, c_result,
            c_path, c_calls>>

\* Bounds of the explored inputs.  Times stay far below 2^32, so the u32
\* additions on current_time never overflow here.
MaxTasks == 3
MaxQueuedAt == 2
MaxDuration == 1
\* execution_order calls made on each scheduler
MaxCalls == 2

----------------------------------------------------------------------------
\* Data

Task(i, q, d) == [id |-> i, queued_at |-> q, execution_duration |-> d]

\* Option<&Task>
None == [some |-> FALSE, val |-> Task(0, 0, 0)]
Some(t) == [some |-> TRUE, val |-> t]

Range(s) == {s[i] : i \in 1..Len(s)}

\* Vec::pop on a non-empty vector: the vector without its last element.
Front(s) == SubSeq(s, 1, Len(s) - 1)
Last(s) == s[Len(s)]

\* Vec::remove(ind) with a 0-based index.
Remove(s, ind) == SubSeq(s, 1, ind) \o SubSeq(s, ind + 2, Len(s))

\* The input slices: n tasks whose ids are pairwise distinct (the position in
\* the slice) and whose (queued_at, execution_duration) pairs are f[1..n].
TaskShapes == (0..MaxQueuedAt) \X (0..MaxDuration)
Slice(n, f) == [i \in 1..n |-> Task(i, f[i][1], f[i][2])]

\* b.queued_at.partial_cmp(&a.queued_at): descending queued_at.
SortedDesc(s) == \A i \in 1..(Len(s) - 1) : s[i].queued_at >= s[i + 1].queued_at

RECURSIVE DescArrangements(_)
\* every arrangement of the set S of task references in descending queued_at
DescArrangements(S) ==
    IF S = {} THEN {<<>>}
    ELSE LET latest == {t \in S : \A u \in S : u.queued_at <= t.queued_at} IN
         UNION {{<<t>> \o r : r \in DescArrangements(S \ {t})} : t \in latest}

\* a variant that leaves the slice in any order (the sort is missing)
SortUnstableOutcomesUnsorted(s) ==
    {r \in [1..Len(s) -> Range(s)] : Range(r) = Range(s)}

\* sort_unstable_by: some rearrangement of the slice that is in comparator
\* order; the order of elements that compare equal is not specified.
SortUnstableOutcomes(s) == DescArrangements(Range(s))

----------------------------------------------------------------------------
\* get_shortest_task_ind: 0-based index of the first task of minimum
\* execution_duration, None on an empty vector.

RECURSIVE ShortestScanKeepsLast(_, _, _, _)
\* a variant whose comparison is <= instead of <: it keeps the last minimum
ShortestScanKeepsLast(ts, i, min_duration, min_ind) ==
    IF i >= Len(ts) THEN min_ind
    ELSE IF ts[i + 1].execution_duration <= min_duration
         THEN ShortestScanKeepsLast(ts, i + 1, ts[i + 1].execution_duration, i)
         ELSE ShortestScanKeepsLast(ts, i + 1, min_duration, min_ind)

RECURSIVE ShortestScan(_, _, _, _)
\* the for loop: i is the 0-based index still to visit
ShortestScan(ts, i, min_duration, min_ind) ==
    IF i >= Len(ts) THEN min_ind
    ELSE IF ts[i + 1].execution_duration < min_duration
         THEN ShortestScan(ts, i + 1, ts[i + 1].execution_duration, i)
         ELSE ShortestScan(ts, i + 1, min_duration, min_ind)

\* Option<usize>
NoIndex == [some |-> FALSE, val |-> 0]
SomeIndex(i) == [some |-> TRUE, val |-> i]

get_shortest_task_ind(ts) ==
    IF Len(ts) > 0
    THEN SomeIndex(ShortestScan(ts, 1, ts[1].execution_duration, 0))
    ELSE NoIndex

----------------------------------------------------------------------------
\* NaiveScheduler

NaiveNew(sorted) ==
    [current_time |-> 0, current_queue |-> <<>>, unqueued_tasks |-> sorted]

\* a variant that forgets the ready queue
NaiveUnfinishedIgnoresQueue(self) ==
    Len(self.unqueued_tasks) > 0

NaiveUnfinished(self) ==
    Len(self.unqueued_tasks) > 0 \/ Len(self.current_queue) > 0

\* a variant that removes the head of current_queue instead of the task found
NaiveGetNextTaskRemovesFirst(self) ==
    LET next_task_ind == get_shortest_task_ind(self.current_queue) IN
    IF next_task_ind.some
    THEN LET next_task == self.current_queue[next_task_ind.val + 1] IN
         [self |-> [self EXCEPT
                      !.current_queue = Remove(@, 0),
                      !.current_time = @ + next_task.execution_duration],
          ret |-> Some(next_task)]
    ELSE IF Len(self.unqueued_tasks) > 0
         THEN LET next_task == Last(self.unqueued_tasks) IN
              [self |-> [self EXCEPT
                           !.unqueued_tasks = Front(@),
                           !.current_time = next_task.queued_at
                                            + next_task.execution_duration],
               ret |-> Some(next_task)]
         ELSE [self |-> self, ret |-> None]

\* a variant whose idle path adds the duration without moving the clock to
\* the task's arrival
NaiveGetNextTaskNoJump(self) ==
    LET next_task_ind == get_shortest_task_ind(self.current_queue) IN
    IF next_task_ind.some
    THEN LET next_task == self.current_queue[next_task_ind.val + 1] IN
         [self |-> [self EXCEPT
                      !.current_queue = Remove(@, next_task_ind.val),
                      !.current_time = @ + next_task.execution_duration],
          ret |-> Some(next_task)]
    ELSE IF Len(self.unqueued_tasks) > 0
         THEN LET next_task == Last(self.unqueued_tasks) IN
              [self |-> [self EXCEPT
                           !.unqueued_tasks = Front(@),
                           !.current_time = @ + next_task.execution_duration],
               ret |-> Some(next_task)]
         ELSE [self |-> self, ret |-> None]

\* get_next_task: [self |-> scheduler afterwards, ret |-> Option<&Task>]
NaiveGetNextTask(self) ==
    LET next_task_ind == get_shortest_task_ind(self.current_queue) IN
    IF next_task_ind.some
    THEN LET next_task == self.current_queue[next_task_ind.val + 1] IN
         [self |-> [self EXCEPT
                      !.current_queue = Remove(@, next_task_ind.val),
                      !.current_time = @ + next_task.execution_duration],
          ret |-> Some(next_task)]
    ELSE IF Len(self.unqueued_tasks) > 0
         THEN LET next_task == Last(self.unqueued_tasks) IN
              [self |-> [self EXCEPT
                           !.unqueued_tasks = Front(@),
                           !.current_time = next_task.queued_at
                                            + next_task.execution_duration],
               ret |-> Some(next_task)]
         ELSE [self |-> self, ret |-> None]

RECURSIVE NaiveGetNewTasksLoopFlipped(_, _, _)
\* a variant whose comparison is >= instead of <=
NaiveGetNewTasksLoopFlipped(unqueued, current_time, new_tasks) ==
    IF Len(unqueued) > 0 /\ Last(unqueued).queued_at >= current_time
    THEN NaiveGetNewTasksLoopFlipped(Front(unqueued), current_time,
                                     Append(new_tasks, Last(unqueued)))
    ELSE [unqueued_tasks |-> unqueued, new_tasks |-> new_tasks]

RECURSIVE NaiveGetNewTasksLoop(_, _, _)
\* the while loop of get_new_tasks
NaiveGetNewTasksLoop(unqueued, current_time, new_tasks) ==
    IF Len(unqueued) > 0 /\ Last(unqueued).queued_at <= current_time
    THEN NaiveGetNewTasksLoop(Front(unqueued), current_time,
                              Append(new_tasks, Last(unqueued)))
    ELSE [unqueued_tasks |-> unqueued, new_tasks |-> new_tasks]

\* get_new_tasks: [self |-> scheduler afterwards, ret |-> new_tasks]
NaiveGetNewTasks(self) ==
    LET r == NaiveGetNewTasksLoop(self.unqueued_tasks, self.current_time, <<>>) IN
    [self |-> [self EXCEPT !.unqueued_tasks = r.unqueued_tasks],
     ret |-> r.new_tasks]

\* a variant that releases nothing
NaiveUpdateQueueNoRelease(self) ==
    self

\* a variant that takes the due tasks out of unqueued_tasks and drops them
NaiveUpdateQueueDropsNew(self) ==
    NaiveGetNewTasks(self).self

NaiveUpdateQueue(self) ==
    LET r == NaiveGetNewTasks(self) IN
    [r.self EXCEPT !.current_queue = @ \o r.ret]

----------------------------------------------------------------------------
\* BinaryHeap<TaskDurationDesc>: a max-heap stored in a vector, 0-based
\* positions as in the standard library.

\* Ord for TaskDurationDesc: other.execution_duration.cmp(&self.execution_duration),
\* so a <= b exactly when b's duration is not greater than a's.
DurationDescLe(a, b) == b.execution_duration <= a.execution_duration

Swap(data, i, j) == [data EXCEPT ![i + 1] = data[j + 1], ![j + 1] = data[i + 1]]

RECURSIVE SiftUp(_, _, _)
SiftUp(data, start, pos) ==
    IF pos > start
    THEN LET parent == (pos - 1) \div 2 IN
         IF DurationDescLe(data[pos + 1], data[parent + 1]) THEN data
         ELSE SiftUp(Swap(data, pos, parent), start, parent)
    ELSE data

RECURSIVE SiftDownToBottom(_, _, _)
\* start is the position where the hole entered, pos where it is now
SiftDownToBottom(data, start, pos) ==
    LET end == Len(data)
        child == 2 * pos + 1
    IN  IF end >= 2 /\ child <= end - 2
        THEN LET c == IF DurationDescLe(data[child + 1], data[child + 2])
                      THEN child + 1 ELSE child
             IN  SiftDownToBottom(Swap(data, pos, c), start, c)
        ELSE IF child = end - 1
             THEN SiftUp(Swap(data, pos, child), start, child)
             ELSE SiftUp(data, start, pos)

\* BinaryHeap::push
HeapPush(data, item) == SiftUp(Append(data, item), 0, Len(data))

\* BinaryHeap::pop: [heap |-> heap afterwards, ret |-> Option]
HeapPop(data) ==
    IF Len(data) = 0 THEN [heap |-> data, ret |-> None]
    ELSE LET item == Last(data)
             rest == Front(data)
         IN  IF Len(rest) = 0 THEN [heap |-> rest, ret |-> Some(item)]
             ELSE [heap |-> SiftDownToBottom([rest EXCEPT ![1] = item], 0, 0),
                   ret |-> Some(rest[1])]

RECURSIVE PartitionSearch(_, _, _, _)
\* slice::partition_point: binary search for the first index whose element
\* fails the predicate task.queued_at >= time
PartitionSearch(ts, time, left, right) ==
    IF left < right
    THEN LET mid == left + (right - left) \div 2 IN
         IF ts[mid + 1].queued_at >= time
         THEN PartitionSearch(ts, time, mid + 1, right)
         ELSE PartitionSearch(ts, time, left, mid)
    ELSE left

PartitionPoint(ts, time) == PartitionSearch(ts, time, 0, Len(ts))

----------------------------------------------------------------------------
\* CleverScheduler

\* a variant that keeps the tasks in ascending queued_at (a.cmp(b) for b.cmp(a))
CleverNewAscending(sorted) ==
    [current_time |-> 0,
     unqueued_tasks |-> [i \in 1..Len(sorted) |-> sorted[Len(sorted) + 1 - i]],
     current_queue |-> <<>>]

CleverNew(sorted) ==
    [current_time |-> 0, unqueued_tasks |-> sorted, current_queue |-> <<>>]

\* a variant whose length test is >= instead of >
CleverUnfinishedAlways(self) ==
    Len(self.unqueued_tasks) >= 0 \/ Len(self.current_queue) > 0

CleverUnfinished(self) ==
    Len(self.unqueued_tasks) > 0 \/ Len(self.current_queue) > 0

RECURSIVE CleverPopLoop(_, _)
\* for _ in 0..num_new_tasks: pop().unwrap() from unqueued_tasks, push on
\* the heap; ok is FALSE when an unwrap met None (panic)
CleverPopLoop(self, n) ==
    IF n = 0 THEN [self |-> self, ok |-> TRUE]
    ELSE IF Len(self.unqueued_tasks) = 0 THEN [self |-> self, ok |-> FALSE]
    ELSE CleverPopLoop(
             [self EXCEPT
                !.unqueued_tasks = Front(@),
                !.current_queue = HeapPush(@, Last(self.unqueued_tasks))],
             n - 1)

\* a variant that pops one task more than the partition point allows
CleverQueueTasksOneTooMany(self, time) ==
    LET num_later_tasks == PartitionPoint(self.unqueued_tasks, time)
        num_new_tasks == Len(self.unqueued_tasks) - num_later_tasks + 1
    IN  CleverPopLoop(self, num_new_tasks)

\* queue_tasks_submitted_before: [self |-> scheduler afterwards, ok |-> no panic]
CleverQueueTasksSubmittedBefore(self, time) ==
    LET num_later_tasks == PartitionPoint(self.unqueued_tasks, time)
        num_new_tasks == Len(self.unqueued_tasks) - num_later_tasks
    IN  CleverPopLoop(self, num_new_tasks)

\* a variant whose idle path adds the duration without moving the clock to
\* the task's arrival
CleverGetNextTaskNoJump(self) ==
    LET popped == HeapPop(self.current_queue) IN
    IF popped.ret.some
    THEN LET task == popped.ret.val IN
         [self |-> [self EXCEPT
                      !.current_queue = popped.heap,
                      !.current_time = @ + task.execution_duration],
          ret |-> Some(task)]
    ELSE IF Len(self.unqueued_tasks) > 0
         THEN LET task == Last(self.unqueued_tasks) IN
              [self |-> [self EXCEPT
                           !.unqueued_tasks = Front(@),
                           !.current_time = @ + task.execution_duration],
               ret |-> Some(task)]
         ELSE [self |-> self, ret |-> None]

CleverGetNextTask(self) ==
    LET popped == HeapPop(self.current_queue) IN
    IF popped.ret.some
    THEN LET task == popped.ret.val IN
         [self |-> [self EXCEPT
                      !.current_queue = popped.heap,
                      !.current_time = @ + task.execution_duration],
          ret |-> Some(task)]
    ELSE IF Len(self.unqueued_tasks) > 0
         THEN LET task == Last(self.unqueued_tasks) IN
              [self |-> [self EXCEPT
                           !.unqueued_tasks = Front(@),
                           !.current_time = task.queued_at
                                            + task.execution_duration],
               ret |-> Some(task)]
         ELSE [self |-> self, ret |-> None]

CleverUpdateQueue(self) ==
    CleverQueueTasksSubmittedBefore(self, self.current_time)

----------------------------------------------------------------------------
\* The state after construction: both schedulers are built from the same
\* slice.  Both constructors run the same sort on the same slice, so they
\* hold the same outcome of it.

Init ==
    /\ \E n \in 0..MaxTasks :
          \E f \in [1..n -> TaskShapes] : tasks = Slice(n, f)
    /\ \E sorted \in SortUnstableOutcomes(tasks) :
          /\ naive = NaiveNew(sorted)
          /\ clever = CleverNew(sorted)
    /\ n_pc = "ready" /\ c_pc = "ready"
    /\ n_executed_ids = <<>> /\ c_executed_ids = <<>>
    /\ n_next_task = None /\ c_next_task = None
    /\ n_before = 0 /\ c_before = 0
    /\ n_iters = 0 /\ c_iters = 0
    /\ n_result = <<>> /\ c_result = <<>>
    /\ n_path = "none" /\ c_path = "none"
    /\ n_calls = 0 /\ c_calls = 0

----------------------------------------------------------------------------
\* NaiveScheduler::execution_order, one action per position

\* entry: let mut executed_ids = Vec::new().  The harness makes its calls
\* one after the other: a further round of calls starts once the clever
\* call of the round before has returned.
\* a variant of the entry that resets the clock of the scheduler
NaiveCallResetsClock ==
    /\ n_pc \in {"ready", "returned"}
    /\ c_pc \in {"ready", "returned"}
    /\ n_calls = c_calls
    /\ n_calls < MaxCalls
    /\ n_calls' = n_calls + 1
    /\ n_pc' = "loop"
    /\ n_executed_ids' = <<>>
    /\ n_iters' = 0
    /\ naive' = [naive EXCEPT !.current_time = 0]
    /\ UNCHANGED <<tasks, n_next_task, n_before, n_result, n_path, c_vars>>

NaiveCall ==
    /\ n_pc \in {"ready", "returned"}
    /\ c_pc \in {"ready", "returned"}
    /\ n_calls = c_calls
    /\ n_calls < MaxCalls
    /\ n_calls' = n_calls + 1
    /\ n_pc' = "loop"
    /\ n_executed_ids' = <<>>
    /\ n_iters' = 0
    /\ UNCHANGED <<tasks, naive, n_next_task, n_before, n_result, n_path, c_vars>>

\* while self.unfinished() { let next_task = self.get_next_task().unwrap();
\*                           executed_ids.push(next_task.id);
NaiveLoopNext ==
    /\ n_pc = "loop"
    /\ NaiveUnfinished(naive)
    /\ LET r == NaiveGetNextTask(naive) IN
          /\ naive' = r.self
          /\ n_before' = naive.current_time
          /\ n_iters' = n_iters + 1
          /\ n_next_task' = r.ret
          /\ n_path' = IF get_shortest_task_ind(naive.current_queue).some
                       THEN "queue"
                       ELSE IF r.ret.some THEN "idle" ELSE "none"
          /\ IF r.ret.some
             THEN /\ n_executed_ids' = Append(n_executed_ids, r.ret.val.id)
                  /\ n_pc' = "update"
             ELSE /\ n_executed_ids' = n_executed_ids
                  /\ n_pc' = "panicked"
    /\ UNCHANGED <<tasks, n_result, n_calls, c_vars>>

\*                           self.update_queue(); }
NaiveLoopUpdate ==
    /\ n_pc = "update"
    /\ naive' = NaiveUpdateQueue(naive)
    /\ n_pc' = "loop"
    /\ UNCHANGED <<tasks, n_executed_ids, n_next_task, n_before, n_iters,
                   n_result, n_path, n_calls, c_vars>>

\* the loop condition is false: return executed_ids
NaiveReturn ==
    /\ n_pc = "loop"
    /\ ~NaiveUnfinished(naive)
    /\ n_result' = n_executed_ids
    /\ n_pc' = "returned"
    /\ UNCHANGED <<tasks, naive, n_executed_ids, n_next_task, n_before,
                   n_iters, n_path, n_calls, c_vars>>

----------------------------------------------------------------------------
\* CleverScheduler::execution_order, called once the naive call of the same
\* round has returned

CleverCall ==
    /\ n_pc = "returned"
    /\ c_pc \in {"ready", "returned"}
    /\ c_calls < n_calls
    /\ c_calls' = c_calls + 1
    /\ c_pc' = "loop"
    /\ c_executed_ids' = <<>>
    /\ c_iters' = 0
    /\ UNCHANGED <<tasks, clever, c_next_task, c_before, c_result, c_path, n_vars>>

CleverLoopNext ==
    /\ c_pc = "loop"
    /\ CleverUnfinished(clever)
    /\ LET r == CleverGetNextTask(clever) IN
          /\ clever' = r.self
          /\ c_before' = clever.current_time
          /\ c_iters' = c_iters + 1
          /\ c_next_task' = r.ret
          /\ c_path' = IF HeapPop(clever.current_queue).ret.some
                       THEN "queue"
                       ELSE IF r.ret.some THEN "idle" ELSE "none"
          /\ IF r.ret.some
             THEN /\ c_executed_ids' = Append(c_executed_ids, r.ret.val.id)
                  /\ c_pc' = "update"
             ELSE /\ c_executed_ids' = c_executed_ids
                  /\ c_pc' = "panicked"
    /\ UNCHANGED <<tasks, c_result, c_calls, n_vars>>

CleverLoopUpdate ==
    /\ c_pc = "update"
    /\ LET r == CleverUpdateQueue(clever) IN
          /\ clever' = r.self
          /\ c_pc' = IF r.ok THEN "loop" ELSE "panicked"
    /\ UNCHANGED <<tasks, c_executed_ids, c_next_task, c_before, c_iters,
                   c_result, c_path, c_calls, n_vars>>

CleverReturn ==
    /\ c_pc = "loop"
    /\ ~CleverUnfinished(clever)
    /\ c_result' = c_executed_ids
    /\ c_pc' = "returned"
    /\ UNCHANGED <<tasks, clever, c_executed_ids, c_next_task, c_before,
                   c_iters, c_path, c_calls, n_vars>>

Next ==
    \/ NaiveCall
    \/ NaiveLoopNext
    \/ NaiveLoopUpdate
    \/ NaiveReturn
    \/ CleverCall
    \/ CleverLoopNext
    \/ CleverLoopUpdate
    \/ CleverReturn

Spec == Init /\ [][Next]_vars

----------------------------------------------------------------------------
\* execution_order as a function of the scheduler it is called on: the ids it
\* returns (the ids pushed so far if an unwrap panics)

RECURSIVE NaiveExecutionLoop(_, _)
NaiveExecutionLoop(self, executed_ids) ==
    IF NaiveUnfinished(self)
    THEN LET r == NaiveGetNextTask(self) IN
         IF r.ret.some
         THEN NaiveExecutionLoop(NaiveUpdateQueue(r.self),
                                 Append(executed_ids, r.ret.val.id))
         ELSE executed_ids
    ELSE executed_ids

NaiveExecutionOrder(self) == NaiveExecutionLoop(self, <<>>)

RECURSIVE CleverExecutionLoop(_, _)
CleverExecutionLoop(self, executed_ids) ==
    IF CleverUnfinished(self)
    THEN LET r == CleverGetNextTask(self) IN
         IF r.ret.some
         THEN LET u == CleverUpdateQueue(r.self) IN
              IF u.ok
              THEN CleverExecutionLoop(u.self, Append(executed_ids, r.ret.val.id))
              ELSE Append(executed_ids, r.ret.val.id)
         ELSE executed_ids
    ELSE executed_ids

CleverExecutionOrder(self) == CleverExecutionLoop(self, <<>>)

----------------------------------------------------------------------------
\* Vocabulary of the properties

\* the call on the freshly constructed scheduler has returned
NaiveReturned == n_pc = "returned" /\ n_calls = 1
CleverReturned == c_pc = "returned" /\ c_calls = 1

\* the scheduler is fresh or inside its first execution_order call
NaiveFirstCall == n_calls <= 1
CleverFirstCall == c_calls <= 1

\* the scheduler has just dispatched a task (get_next_task returned it and
\* its id was pushed) and update_queue has not run yet
NaiveJustDispatched == n_pc = "update"
CleverJustDispatched == c_pc = "update"

\* update_queue has just returned
NaiveJustUpdated == n_pc = "loop" /\ n_iters > 0
CleverJustUpdated == c_pc = "loop" /\ c_iters > 0

\* the task of the input slice with the given id
TaskOf(i) == CHOOSE t \in Range(tasks) : t.id = i

\* the tasks not yet dispatched as they stood just before the dispatch that
\* has just happened: what the scheduler still holds, and the dispatched one
NaivePendingBefore ==
    Range(naive.unqueued_tasks) \cup Range(naive.current_queue)
        \cup {n_next_task.val}
CleverPendingBefore ==
    Range(clever.unqueued_tasks) \cup Range(clever.current_queue)
        \cup {c_next_task.val}

NaiveEligibleBefore == {t \in NaivePendingBefore : t.queued_at <= n_before}
CleverEligibleBefore == {t \in CleverPendingBefore : t.queued_at <= c_before}

ShortestOf(t, S) == t \in S /\ \A u \in S : t.execution_duration <= u.execution_duration

AscendingDuration(ids) ==
    \A i, j \in 1..Len(ids) :
        i < j => TaskOf(ids[i]).execution_duration <= TaskOf(ids[j]).execution_duration

AllQueuedAtZero == \A i \in 1..Len(tasks) : tasks[i].queued_at = 0

----------------------------------------------------------------------------
\* C1: a NaiveScheduler and a CleverScheduler built from the same slice
\* return the same id sequence from execution_order.
C1_SameOrder ==
    (NaiveReturned /\ CleverReturned) => n_result = c_result

\* C2: whenever a task is dispatched while some not-yet-dispatched task has
\* queued_at <= current_time (as it stood just before the dispatch), the
\* dispatched task is one of those and has the least execution_duration
\* among them.
C2_ShortestJobFirst ==
    /\ (NaiveJustDispatched /\ NaiveEligibleBefore # {})
          => ShortestOf(n_next_task.val, NaiveEligibleBefore)
    /\ (CleverJustDispatched /\ CleverEligibleBefore # {})
          => ShortestOf(c_next_task.val, CleverEligibleBefore)

\* C3: when every task has queued_at = 0, both schedulers return the ids in
\* ascending order of execution_duration.
C3_ZeroArrivalOrder ==
    AllQueuedAtZero =>
        /\ NaiveReturned => AscendingDuration(n_result)
        /\ CleverReturned => AscendingDuration(c_result)

IsPermutationOfInput(ids) ==
    /\ Len(ids) = Len(tasks)
    /\ \A i \in 1..Len(tasks) :
          Cardinality({j \in 1..Len(ids) : ids[j] = tasks[i].id}) = 1

\* C4: the returned sequence has the length of the input and holds every
\* input id exactly once.
C4_Permutation ==
    /\ NaiveReturned => IsPermutationOfInput(n_result)
    /\ CleverReturned => IsPermutationOfInput(c_result)

C4_Witness ==
    /\ NaiveReturned /\ CleverReturned
    /\ Len(tasks) >= 3
    /\ n_result # [i \in 1..Len(tasks) |-> tasks[i].id]

\* C5: after every call to update_queue no task with
\* queued_at <= current_time is left in unqueued_tasks.
C5_DueTasksReleased ==
    /\ NaiveJustUpdated =>
          \A t \in Range(naive.unqueued_tasks) : t.queued_at > naive.current_time
    /\ CleverJustUpdated =>
          \A t \in Range(clever.unqueued_tasks) : t.queued_at > clever.current_time

\* C6: the start time of a dispatched task (current_time right after the
\* dispatch minus its execution_duration) is not before its queued_at.
C6_NotBeforeArrival ==
    /\ NaiveJustDispatched =>
          naive.current_time - n_next_task.val.execution_duration
              >= n_next_task.val.queued_at
    /\ CleverJustDispatched =>
          clever.current_time - c_next_task.val.execution_duration
              >= c_next_task.val.queued_at

\* an idle fast-forward after earlier work: the clock had advanced, the ready
\* queue was empty and the dispatched task had not arrived yet
C6_Witness ==
    /\ NaiveReturned
    /\ CleverJustDispatched
    /\ Len(c_executed_ids) >= 2
    /\ c_before > 0
    /\ c_next_task.val.queued_at > c_before

NaiveRemaining == Len(naive.unqueued_tasks) + Len(naive.current_queue)
CleverRemaining == Len(clever.unqueued_tasks) + Len(clever.current_queue)

\* C7: execution_order returns after exactly Len(tasks) iterations, each
\* dispatching one task, with both containers empty.  The number of tasks
\* still held is the loop variant: it is Len(tasks) minus the iterations
\* entered, every iteration pushes one id, and no iteration panics.
C7_Termination ==
    /\ n_pc # "panicked" /\ c_pc # "panicked"
    /\ NaiveFirstCall => NaiveRemaining = Len(tasks) - n_iters
    /\ CleverFirstCall => CleverRemaining = Len(tasks) - c_iters
    /\ Len(n_executed_ids) = n_iters
    /\ Len(c_executed_ids) = c_iters
    /\ (NaiveFirstCall /\ n_pc = "loop" /\ n_iters = Len(tasks))
          => ~NaiveUnfinished(naive)
    /\ (CleverFirstCall /\ c_pc = "loop" /\ c_iters = Len(tasks))
          => ~CleverUnfinished(clever)
    /\ NaiveReturned =>
          /\ n_iters = Len(tasks)
          /\ naive.unqueued_tasks = <<>> /\ naive.current_queue = <<>>
    /\ CleverReturned =>
          /\ c_iters = Len(tasks)
          /\ clever.unqueued_tasks = <<>> /\ clever.current_queue = <<>>

C7_Witness ==
    /\ NaiveReturned /\ CleverReturned
    /\ Len(tasks) >= 2
    /\ \E i \in 1..Len(tasks) : tasks[i].execution_duration = 0
    /\ \E i \in 1..Len(tasks) : tasks[i].execution_duration > 0

\* C8: whenever unfinished() holds, get_next_task returns Some, the pops of
\* the release step find a task, and so no unwrap panics.
C8_NoInternalFault ==
    /\ n_pc # "panicked" /\ c_pc # "panicked"
    /\ NaiveUnfinished(naive) => NaiveGetNextTask(naive).ret.some
    /\ CleverUnfinished(clever) => CleverGetNextTask(clever).ret.some
    /\ CleverJustDispatched => CleverUpdateQueue(clever).ok

\* the release step has popped a task, later tasks are left, and the loop
\* goes on
C8_Witness ==
    /\ NaiveReturned
    /\ CleverJustUpdated
    /\ Len(clever.current_queue) >= 1
    /\ Len(clever.unqueued_tasks) >= 1
    /\ CleverUnfinished(clever)

\* C9: on an empty slice execution_order enters no loop iteration, leaves
\* current_time at 0 and returns the empty sequence.
C9_EmptyInput ==
    tasks = <<>> =>
        /\ n_pc \in {"ready", "loop", "returned"}
        /\ c_pc \in {"ready", "loop", "returned"}
        /\ n_iters = 0 /\ c_iters = 0
        /\ naive.current_time = 0 /\ clever.current_time = 0
        /\ n_executed_ids = <<>> /\ c_executed_ids = <<>>
        /\ NaiveReturned => n_result = <<>>
        /\ CleverReturned => c_result = <<>>

C9_Witness ==
    tasks = <<>> /\ NaiveReturned /\ CleverReturned

\* C11: the idle fast-forward branch of get_next_task is taken only when no
\* not-yet-dispatched task has queued_at <= current_time (as it stood before
\* the selection), the first iteration included.
C11_AdmitBeforeSelect ==
    /\ (NaiveJustDispatched /\ n_path = "idle") => NaiveEligibleBefore = {}
    /\ (CleverJustDispatched /\ c_path = "idle") => CleverEligibleBefore = {}

\* the input tasks whose id is not in the sequence of ids
NotIn(ids) == {t \in Range(tasks) : \A j \in 1..Len(ids) : ids[j] # t.id}

NoDuplicates(s) == \A i, j \in 1..Len(s) : i # j => s[i] # s[j]

\* C12: unqueued_tasks and current_queue hold disjoint sets of tasks, each
\* task once, and together exactly the input tasks whose id is not yet in
\* the dispatch log.  The log is executed_ids of the first call; once that
\* call has returned every id has been logged and nothing is held any more.
C12_Partition ==
    /\ NoDuplicates(naive.unqueued_tasks \o naive.current_queue)
    /\ Range(naive.unqueued_tasks) \cap Range(naive.current_queue) = {}
    /\ Range(naive.unqueued_tasks) \cup Range(naive.current_queue)
          = IF NaiveFirstCall THEN NotIn(n_executed_ids) ELSE {}
    /\ NoDuplicates(clever.unqueued_tasks \o clever.current_queue)
    /\ Range(clever.unqueued_tasks) \cap Range(clever.current_queue) = {}
    /\ Range(clever.unqueued_tasks) \cup Range(clever.current_queue)
          = IF CleverFirstCall THEN NotIn(c_executed_ids) ELSE {}

\* both containers of both schedulers hold tasks, some ids are logged
C12_Witness ==
    /\ NaiveReturned
    /\ Len(clever.unqueued_tasks) >= 1
    /\ Len(clever.current_queue) >= 1
    /\ Len(c_executed_ids) >= 1

\* C13: every task held in current_queue has queued_at <= current_time.
C13_ReadyEligible ==
    /\ \A t \in Range(naive.current_queue) : t.queued_at <= naive.current_time
    /\ \A t \in Range(clever.current_queue) : t.queued_at <= clever.current_time

\* tasks that arrived after time 0 wait in both ready queues
C13_Witness ==
    /\ NaiveReturned
    /\ \E t \in Range(clever.current_queue) : t.queued_at > 0

\* C14: current_time starts at 0 and no step decreases it.  current_time
\* changes only in get_next_task, and n_before / c_before hold the value it
\* had before the last get_next_task.
C14_ClockMonotone ==
    /\ n_calls = 0 => naive.current_time = 0
    /\ c_calls = 0 => clever.current_time = 0
    /\ naive.current_time >= n_before
    /\ clever.current_time >= c_before
    /\ n_before >= 0 /\ c_before >= 0

\* an idle fast-forward taken after the clock had already advanced
C14_Witness ==
    /\ NaiveJustDispatched
    /\ n_path = "idle"
    /\ n_before > 0
    /\ naive.current_time > n_before

Max(a, b) == IF a >= b THEN a ELSE b

\* C15: a dispatch on the idle path leaves current_time at
\* max(current_time before, task.queued_at) + task.execution_duration.
C15_IdleClockValue ==
    /\ (NaiveJustDispatched /\ n_path = "idle") =>
          naive.current_time
              = Max(n_before, n_next_task.val.queued_at)
                + n_next_task.val.execution_duration
    /\ (CleverJustDispatched /\ c_path = "idle") =>
          clever.current_time
              = Max(c_before, c_next_task.val.queued_at)
                + c_next_task.val.execution_duration

C15_Witness ==
    /\ NaiveReturned
    /\ CleverJustDispatched
    /\ c_path = "idle"
    /\ c_iters >= 2
    /\ c_next_task.val.queued_at > c_before

\* every order in which the same tasks can appear in the input slice
PermutationsOf(s) == {p \in [1..Len(s) -> Range(s)] : Range(p) = Range(s)}

\* a scheduler of the same kind built from any permutation of the slice
\* returns what the scheduler of the run returned
NaiveSameForPermutations ==
    \A p \in PermutationsOf(tasks) : \A sorted \in SortUnstableOutcomes(p) :
        NaiveExecutionOrder(NaiveNew(sorted)) = n_result
CleverSameForPermutations ==
    \A p \in PermutationsOf(tasks) : \A sorted \in SortUnstableOutcomes(p) :
        CleverExecutionOrder(CleverNew(sorted)) = c_result

\* the first call has just returned
NaiveJustReturned == NaiveReturned /\ c_calls = 0 /\ c_pc = "ready"
CleverJustReturned == CleverReturned /\ n_calls = 1

DistinctQueuedAt ==
    \A i, j \in 1..Len(tasks) : i # j => tasks[i].queued_at # tasks[j].queued_at

SortedAsc(s) == \A i \in 1..(Len(s) - 1) : s[i].queued_at <= s[i + 1].queued_at

\* C17: NaiveScheduler's current_queue is always in non-decreasing queued_at
\* order, and a task dispatched from it has the minimum execution_duration
\* and, among the queued tasks of that duration, the smallest queued_at.
C17_NaiveTieBreak ==
    /\ SortedAsc(naive.current_queue)
    /\ (NaiveJustDispatched /\ n_path = "queue") =>
          \A t \in Range(naive.current_queue) :
              /\ n_next_task.val.execution_duration <= t.execution_duration
              /\ t.execution_duration = n_next_task.val.execution_duration
                    => n_next_task.val.queued_at <= t.queued_at

\* a dispatch from the queue that left behind a task of the same duration
\* that arrived later
C17_Witness ==
    /\ NaiveJustDispatched
    /\ n_path = "queue"
    /\ \E t \in Range(naive.current_queue) :
          /\ t.execution_duration = n_next_task.val.execution_duration
          /\ t.queued_at > n_next_task.val.queued_at

\* C18: once execution_order has returned, a further call on the same
\* scheduler changes neither current_time nor unqueued_tasks nor
\* current_queue, dispatches nothing, and returns the empty sequence.
C18_SecondCallInert ==
    /\ [][/\ n_calls' >= 2 => naive' = naive
          /\ c_calls' >= 2 => clever' = clever]_vars
    /\ [](n_calls >= 2 =>
            /\ n_pc \in {"loop", "returned"}
            /\ n_executed_ids = <<>>
            /\ n_pc = "returned" => n_result = <<>>)
    /\ [](c_calls >= 2 =>
            /\ c_pc \in {"loop", "returned"}
            /\ c_executed_ids = <<>>
            /\ c_pc = "returned" => c_result = <<>>)

\* both second calls have returned, on schedulers whose first run
\* dispatched tasks and advanced the clock
C18_Witness ==
    /\ n_calls = 2 /\ n_pc = "returned"
    /\ c_calls = 2 /\ c_pc = "returned"
    /\ Len(tasks) >= 2
    /\ naive.current_time > 0
    /\ clever.current_time > 0

\* the predicate of partition_point in queue_tasks_submitted_before is true
\* on a prefix of ts and false on the rest
Partitioned(ts, time) ==
    \A i, j \in 1..Len(ts) :
        (i < j /\ ts[j].queued_at >= time) => ts[i].queued_at >= time

\* C19: unqueued_tasks of either scheduler is always in non-increasing
\* queued_at order; a task popped on the idle path has the smallest queued_at
\* of all tasks still unqueued; the slice given to partition_point is
\* partitioned by its predicate.
C19_ArrivalListOrder ==
    /\ SortedDesc(naive.unqueued_tasks)
    /\ SortedDesc(clever.unqueued_tasks)
    /\ (NaiveJustDispatched /\ n_path = "idle") =>
          \A t \in Range(naive.unqueued_tasks) :
              n_next_task.val.queued_at <= t.queued_at
    /\ (CleverJustDispatched /\ c_path = "idle") =>
          \A t \in Range(clever.unqueued_tasks) :
              c_next_task.val.queued_at <= t.queued_at
    /\ Partitioned(clever.unqueued_tasks, clever.current_time)

\* an idle pop by CleverScheduler that left later arrivals unqueued, some of
\* them due at the new clock value and some not
C19_Witness ==
    /\ CleverJustDispatched
    /\ c_path = "idle"
    /\ \E t, u \in Range(clever.unqueued_tasks) :
          /\ t.queued_at > c_next_task.val.queued_at
          /\ t.queued_at >= clever.current_time
          /\ u.queued_at < clever.current_time

====
